---- MODULE Spec2Model ----
(***************************************************************************)
(* A model of the jlang front end: the Lexer of src/src/lexer/mod.rs and   *)
(* the recursive-descent Parser of src/src/parser/mod.rs.                  *)
(*                                                                         *)
(* Characters are one-character strings, a source text is a sequence of    *)
(* characters (Lexer.input is a Vec<char>).  Cursors keep the 0-based      *)
(* values of the Rust code; input[i] of the code is input[i + 1] here.     *)
(***************************************************************************)
EXTENDS Integers, Sequences, FiniteSets, TLC

VARIABLES lexer, tokens, spans, lexOut, parser

vars == <<lexer, tokens, spans, lexOut, parser>>

(***************************************************************************)
(* Bounds of the model.                                                    *)
(***************************************************************************)
\* a source text is the concatenation of at most MaxChunks chunks
MaxChunks == 4
\* a token vector handed to the parser holds at most MaxTokens tokens
MaxTokens == 18
\* tokens handed to the parser sit TokensPerLine to a source line
TokensPerLine == 3

(***************************************************************************)
(* Characters.                                                             *)
(***************************************************************************)
\* the '\0' that peek and peek_next return at end of input
NulChar == "NUL"

Digits == {"0", "1", "2", "3", "4", "5", "6", "7", "8", "9"}

Letters ==
    {"a", "b", "c", "d", "e", "f", "g", "h", "i", "j", "k", "l", "m",
     "n", "o", "p", "q", "r", "s", "t", "u", "v", "w", "x", "y", "z",
     "A", "B", "C", "D", "E", "F", "G", "H", "I", "J", "K", "L", "M",
     "N", "O", "P", "Q", "R", "S", "T", "U", "V", "W", "X", "Y", "Z"}

IsAsciiDigit(c) == c \in Digits

IsAsciiAlphabetic(c) == c \in Letters

IsAsciiAlphanumeric(c) == c \in Letters \cup Digits

(***************************************************************************)
(* Lexer: src/src/lexer/mod.rs                                             *)
(***************************************************************************)
\* Lexer::new
LexerNew(input) ==
    [input |-> input, start |-> 0, current |-> 0, line |-> 1, column |-> 1,
     panicked |-> FALSE]

LexIsAtEnd(lx) == lx.current >= Len(lx.input)

LexPeek(lx) == IF LexIsAtEnd(lx) THEN NulChar ELSE lx.input[lx.current + 1]

LexPeekNext(lx) ==
    IF lx.current + 1 >= Len(lx.input) THEN NulChar ELSE lx.input[lx.current + 2]

\* LexerError values
UnexpectedEOFErr(lx) ==
    [kind |-> "UnexpectedEOF", char |-> NulChar, line |-> lx.line, column |-> lx.column]

UnterminatedStringErr(lx) ==
    [kind |-> "UnterminatedString", char |-> NulChar, line |-> lx.line,
     column |-> lx.column]

InvalidNumberErr(lx, len) ==
    [kind |-> "InvalidNumber", char |-> NulChar, line |-> lx.line,
     column |-> lx.column - len]

UnexpectedCharacterErr(lx, c) ==
    [kind |-> "UnexpectedCharacter", char |-> c, line |-> lx.line,
     column |-> lx.column - 1]

NoErr == [kind |-> "none", char |-> NulChar, line |-> 0, column |-> 0]

\* Lexer::advance: Result<char, LexerError> and the lexer after the call
LexAdvance(lx) ==
    IF LexIsAtEnd(lx)
    THEN [lx |-> lx, c |-> NulChar, err |-> UnexpectedEOFErr(lx)]
    ELSE [lx |-> [lx EXCEPT !.current = @ + 1, !.column = @ + 1],
          c |-> lx.input[lx.current + 1], err |-> NoErr]

\* advance().unwrap(): an Err aborts the process
AdvanceUnwrap(lx) ==
    LET r == LexAdvance(lx)
    IN  IF r.err = NoErr THEN r.lx ELSE [r.lx EXCEPT !.panicked = TRUE]

\* Lexer::match_char: whether it matched, and the lexer after the call
MatchChar(lx, expected) ==
    IF LexIsAtEnd(lx) \/ lx.input[lx.current + 1] # expected
    THEN [lx |-> lx, matched |-> FALSE]
    ELSE [lx |-> [lx EXCEPT !.current = @ + 1, !.column = @ + 1], matched |-> TRUE]

\* a bug: a comment runs to the end of input, over the newlines
RECURSIVE SkipCommentToEnd(_)
SkipCommentToEnd(lx) ==
    IF ~LexIsAtEnd(lx) /\ ~lx.panicked
    THEN SkipCommentToEnd(AdvanceUnwrap(lx))
    ELSE lx

\* the inner loop of skip_whitespace: a comment runs to the newline or the end
RECURSIVE SkipComment(_)
SkipComment(lx) ==
    IF ~LexIsAtEnd(lx) /\ LexPeek(lx) # "\n" /\ ~lx.panicked
    THEN SkipComment(AdvanceUnwrap(lx))
    ELSE lx

\* the newline arm of skip_whitespace
SkipNewline(lx) == AdvanceUnwrap([lx EXCEPT !.line = @ + 1, !.column = 1])

\* a bug: the first arm of skip_whitespace leaves out the tab
RECURSIVE SkipLoopNoTab(_)
SkipLoopNoTab(lx) ==
    IF LexIsAtEnd(lx) \/ lx.panicked
    THEN lx
    ELSE LET c == LexPeek(lx)
         IN  IF c \in {" ", "\r"} THEN SkipLoopNoTab(AdvanceUnwrap(lx))
             ELSE IF c = "\n" THEN SkipLoopNoTab(SkipNewline(lx))
             ELSE IF c = "/" /\ LexPeekNext(lx) = "/"
             THEN SkipLoopNoTab(SkipComment(lx))
             ELSE lx

\* the outer loop of skip_whitespace
RECURSIVE SkipLoop(_)
SkipLoop(lx) ==
    IF LexIsAtEnd(lx) \/ lx.panicked
    THEN lx
    ELSE LET c == LexPeek(lx)
         IN  IF c \in {" ", "\r", "\t"} THEN SkipLoop(AdvanceUnwrap(lx))
             ELSE IF c = "\n" THEN SkipLoop(SkipNewline(lx))
             ELSE IF c = "/" /\ LexPeekNext(lx) = "/" THEN SkipLoop(SkipComment(lx))
             ELSE lx

\* Lexer::skip_whitespace
SkipWhitespace(lx) ==
    LET l == SkipLoop(lx) IN [l EXCEPT !.start = l.current]

\* input[from..to] of the code (0-based, to excluded)
Slice(input, from, to) == SubSeq(input, from + 1, to)

\* make_token computes column - (current - start) in usize: the subtraction
\* underflows when the cursor's column is smaller than the span's length
MakeTokenUnderflows(lx) == lx.column < lx.current - lx.start

\* Lexer::make_token.  A negative column stands for the wrapped usize value
\* 2^64 + column that a build without overflow checks stores.
MakeToken(lx, token_type, val) ==
    [token_type |-> token_type, val |-> val, line |-> lx.line,
     column |-> lx.column - (lx.current - lx.start)]

\* results of the scanning functions: the lexer after the call and Ok(token)
\* or Err(err); underflow records that make_token's subtraction underflowed
TokOk(lx, token_type, val) ==
    [lx |-> lx, tag |-> "Ok", token |-> MakeToken(lx, token_type, val),
     err |-> NoErr, underflow |-> MakeTokenUnderflows(lx)]

NoToken == [token_type |-> "none", val |-> <<>>, line |-> 0, column |-> 0]

TokErr(lx, err) ==
    [lx |-> lx, tag |-> "Err", token |-> NoToken, err |-> err, underflow |-> FALSE]

\* the scanning loop of string(): [lx, err]
RECURSIVE StringLoop(_)
StringLoop(lx) ==
    IF ~LexIsAtEnd(lx) /\ LexPeek(lx) # "\""
    THEN LET l1 == IF LexPeek(lx) = "\n"
                   THEN [lx EXCEPT !.line = @ + 1, !.column = 1]
                   ELSE lx
             r == LexAdvance(l1)
         IN  IF r.err = NoErr THEN StringLoop(r.lx) ELSE [lx |-> r.lx, err |-> r.err]
    ELSE [lx |-> lx, err |-> NoErr]

\* a bug: string() does not look for the end of input after its loop and
\* calls advance for the closing quote at once
StringAdvancesAtEnd(lx) ==
    LET s == StringLoop(lx)
    IN  IF s.err # NoErr THEN TokErr(s.lx, s.err)
        ELSE LET r == LexAdvance(s.lx)
             IN  IF r.err # NoErr THEN TokErr(r.lx, r.err)
                 ELSE TokOk(r.lx, "StringLiteral",
                            Slice(r.lx.input, r.lx.start + 1, r.lx.current - 1))

\* Lexer::string
String(lx) ==
    LET s == StringLoop(lx)
    IN  IF s.err # NoErr THEN TokErr(s.lx, s.err)
        ELSE IF LexIsAtEnd(s.lx) THEN TokErr(s.lx, UnterminatedStringErr(s.lx))
        ELSE LET r == LexAdvance(s.lx)
             IN  IF r.err # NoErr THEN TokErr(r.lx, r.err)
                 ELSE TokOk(r.lx, "StringLiteral",
                            Slice(r.lx.input, r.lx.start + 1, r.lx.current - 1))

\* while !is_at_end() && peek().is_ascii_digit() { advance()? }: [lx, err]
RECURSIVE DigitLoop(_)
DigitLoop(lx) ==
    IF ~LexIsAtEnd(lx) /\ IsAsciiDigit(LexPeek(lx))
    THEN LET r == LexAdvance(lx)
         IN  IF r.err = NoErr THEN DigitLoop(r.lx) ELSE [lx |-> r.lx, err |-> r.err]
    ELSE [lx |-> lx, err |-> NoErr]

\* str::parse::<f64> on the text number() consumes, as the decimal numeral of
\* the value: no leading zeros in the integer part, no trailing zeros in the
\* fraction, no fraction when it is zero.  An Err is <<>>.
RECURSIVE StripLeadingZeros(_)
StripLeadingZeros(s) ==
    IF Len(s) > 1 /\ s[1] = "0" THEN StripLeadingZeros(Tail(s)) ELSE s

RECURSIVE StripTrailingZeros(_)
StripTrailingZeros(s) ==
    IF Len(s) > 0 /\ s[Len(s)] = "0"
    THEN StripTrailingZeros(SubSeq(s, 1, Len(s) - 1))
    ELSE s

DotIndex(s) ==
    IF \E i \in 1..Len(s) : s[i] = "."
    THEN CHOOSE i \in 1..Len(s) : s[i] = "." /\ \A j \in 1..(i - 1) : s[j] # "."
    ELSE 0

ParseF64(s) ==
    LET d == DotIndex(s)
        ip == IF d = 0 THEN s ELSE SubSeq(s, 1, d - 1)
        fp == IF d = 0 THEN <<>> ELSE SubSeq(s, d + 1, Len(s))
        wellFormed == /\ \A i \in 1..Len(ip) : IsAsciiDigit(ip[i])
                      /\ \A i \in 1..Len(fp) : IsAsciiDigit(fp[i])
                      /\ Len(ip) + Len(fp) > 0
        f == StripTrailingZeros(fp)
        n == IF ip = <<>> THEN <<"0">> ELSE StripLeadingZeros(ip)
    IN  IF ~wellFormed THEN <<>>
        ELSE IF f = <<>> THEN n ELSE n \o <<".">> \o f

\* a bug: the '.' after the digits is consumed whatever follows it
NumberTakesDot(lx) ==
    LET a == DigitLoop(lx)
    IN  IF a.err # NoErr THEN TokErr(a.lx, a.err)
        ELSE LET hasFrac == ~LexIsAtEnd(a.lx) /\ LexPeek(a.lx) = "."
                 dot == LexAdvance(a.lx)
                 b == IF ~hasFrac THEN a
                      ELSE IF dot.err # NoErr THEN [lx |-> dot.lx, err |-> dot.err]
                      ELSE DigitLoop(dot.lx)
             IN  IF b.err # NoErr THEN TokErr(b.lx, b.err)
                 ELSE LET num_str == Slice(b.lx.input, b.lx.start, b.lx.current)
                          value == ParseF64(num_str)
                      IN  IF value # <<>>
                          THEN TokOk(b.lx, "NumberLiteral", value)
                          ELSE TokErr(b.lx, InvalidNumberErr(b.lx, Len(num_str)))

\* Lexer::number
Number(lx) ==
    LET a == DigitLoop(lx)
    IN  IF a.err # NoErr THEN TokErr(a.lx, a.err)
        ELSE LET hasFrac == /\ ~LexIsAtEnd(a.lx)
                            /\ LexPeek(a.lx) = "."
                            /\ IsAsciiDigit(LexPeekNext(a.lx))
                 dot == LexAdvance(a.lx)
                 b == IF ~hasFrac THEN a
                      ELSE IF dot.err # NoErr THEN [lx |-> dot.lx, err |-> dot.err]
                      ELSE DigitLoop(dot.lx)
             IN  IF b.err # NoErr THEN TokErr(b.lx, b.err)
                 ELSE LET num_str == Slice(b.lx.input, b.lx.start, b.lx.current)
                          value == ParseF64(num_str)
                      IN  IF value # <<>>
                          THEN TokOk(b.lx, "NumberLiteral", value)
                          ELSE TokErr(b.lx, InvalidNumberErr(b.lx, Len(num_str)))

\* the scanning loop of identifier(): [lx, err]
RECURSIVE IdentLoop(_)
IdentLoop(lx) ==
    IF ~LexIsAtEnd(lx) /\ (IsAsciiAlphanumeric(LexPeek(lx)) \/ LexPeek(lx) = "_")
    THEN LET r == LexAdvance(lx)
         IN  IF r.err = NoErr THEN IdentLoop(r.lx) ELSE [lx |-> r.lx, err |-> r.err]
    ELSE [lx |-> lx, err |-> NoErr]

\* the keyword table of identifier(): <<token type, value>>
Keyword(text) ==
    IF text = <<"m", "o", "d", "u", "l", "e">> THEN <<"Module", <<>>>>
    ELSE IF text = <<"t", "y", "p", "e">> THEN <<"Type", <<>>>>
    ELSE IF text = <<"c", "o", "n", "s", "t">> THEN <<"Const", <<>>>>
    ELSE IF text = <<"l", "e", "t">> THEN <<"Let", <<>>>>
    ELSE IF text = <<"N", "u", "m", "b", "e", "r">> THEN <<"Number", <<>>>>
    ELSE IF text = <<"S", "t", "r", "i", "n", "g">> THEN <<"String", <<>>>>
    ELSE IF text = <<"B", "o", "o", "l", "e", "a", "n">> THEN <<"Boolean", <<>>>>
    ELSE IF text = <<"t", "r", "u", "e">> THEN <<"BooleanLiteral", <<"true">>>>
    ELSE IF text = <<"f", "a", "l", "s", "e">> THEN <<"BooleanLiteral", <<"false">>>>
    ELSE <<"Identifier", text>>

\* Lexer::identifier
Identifier(lx) ==
    LET a == IdentLoop(lx)
    IN  IF a.err # NoErr THEN TokErr(a.lx, a.err)
        ELSE LET k == Keyword(Slice(a.lx.input, a.lx.start, a.lx.current))
             IN  TokOk(a.lx, k[1], k[2])

\* the match on the first character in next_token
ScanToken(lx, c) ==
    IF c = "{" THEN TokOk(lx, "LeftBrace", <<>>)
    ELSE IF c = "}" THEN TokOk(lx, "RightBrace", <<>>)
    ELSE IF c = "(" THEN TokOk(lx, "LeftParen", <<>>)
    ELSE IF c = ")" THEN TokOk(lx, "RightParen", <<>>)
    ELSE IF c = ":" THEN TokOk(lx, "Colon", <<>>)
    ELSE IF c = "="
         THEN LET m == MatchChar(lx, ">")
              IN  IF m.matched THEN TokOk(m.lx, "Arrow", <<>>)
                  ELSE TokOk(m.lx, "Equals", <<>>)
    ELSE IF c = "." THEN TokOk(lx, "Dot", <<>>)
    ELSE IF c = "," THEN TokOk(lx, "Comma", <<>>)
    ELSE IF c = "\"" THEN String(lx)
    ELSE IF IsAsciiDigit(c) THEN Number(lx)
    ELSE IF IsAsciiAlphabetic(c) \/ c = "_" THEN Identifier(lx)
    ELSE TokErr(lx, UnexpectedCharacterErr(lx, c))

\* a bug: at the end of input next_token moves the column on, as though the
\* end were a character it consumed
NextTokenCountsEnd(lx0) ==
    LET lx == SkipWhitespace(lx0)
    IN  IF LexIsAtEnd(lx)
        THEN TokOk([lx EXCEPT !.column = @ + 1], "EOF", <<>>)
        ELSE LET r == LexAdvance([lx EXCEPT !.start = lx.current])
             IN  IF r.err # NoErr THEN TokErr(r.lx, r.err)
                 ELSE ScanToken(r.lx, r.c)

\* Lexer::next_token
NextToken(lx0) ==
    LET lx == SkipWhitespace(lx0)
    IN  IF LexIsAtEnd(lx) THEN TokOk(lx, "EOF", <<>>)
        ELSE LET r == LexAdvance([lx EXCEPT !.start = lx.current])
             IN  IF r.err # NoErr THEN TokErr(r.lx, r.err)
                 ELSE ScanToken(r.lx, r.c)

(***************************************************************************)
(* Lexer::tokenize as a state machine: one step per iteration of its loop. *)
(* lexer is the Lexer, tokens the local Vec<Token>, lexOut the value       *)
(* tokenize returned.  spans is a history variable: the values of          *)
(* lexer.start and lexer.current when each token of tokens was made.       *)
(* Where make_token's subtraction underflows, both outcomes are steps: the *)
(* panic of a build with overflow checks and the wrapped column of a build *)
(* without them.                                                           *)
(***************************************************************************)
\* tokenize was not called
LexIdle == [tag |-> "idle", tokens |-> <<>>, err |-> NoErr]

LexRunning == [tag |-> "running", tokens |-> <<>>, err |-> NoErr]

\* a bug: the loop breaks on EOF before the token is pushed
LexOkWithoutEOF(toks) ==
    [tag |-> "Ok", tokens |-> SubSeq(toks, 1, Len(toks) - 1), err |-> NoErr]

\* Ok(tokens) of tokenize
LexOk(toks) == [tag |-> "Ok", tokens |-> toks, err |-> NoErr]

\* the `?` of tokenize: the error alone is returned, the local Vec is dropped
LexErr(toks, err) == [tag |-> "Err", tokens |-> <<>>, err |-> err]

LexPanic == [tag |-> "Panic", tokens |-> <<>>, err |-> NoErr]

\* the loop of tokenize, run to its end.  checks: the build has overflow
\* checks, so that an underflow in make_token panics.
RECURSIVE TokenizeLoop(_, _, _)
TokenizeLoop(lx, toks, checks) ==
    LET r == NextToken(lx)
    IN  IF r.lx.panicked \/ (r.underflow /\ checks) THEN LexPanic
        ELSE IF r.tag = "Err" THEN LexErr(toks, r.err)
        ELSE IF r.token.token_type = "EOF" THEN LexOk(Append(toks, r.token))
        ELSE TokenizeLoop(r.lx, Append(toks, r.token), checks)

\* Lexer::new(input).tokenize()
Tokenize(input, checks) == TokenizeLoop(LexerNew(input), <<>>, checks)

\* an iteration that pushes a token other than EOF and loops
TokenizePush ==
    /\ lexOut.tag = "running"
    /\ LET r == NextToken(lexer)
       IN  /\ r.tag = "Ok" /\ ~r.lx.panicked
           /\ r.token.token_type # "EOF"
           /\ lexer' = r.lx
           /\ tokens' = Append(tokens, r.token)
           /\ spans' = Append(spans, <<r.lx.start, r.lx.current>>)
           /\ lexOut' = lexOut
    /\ UNCHANGED parser

\* the iteration that pushes the EOF token, breaks and returns Ok(tokens)
TokenizeEOF ==
    /\ lexOut.tag = "running"
    /\ LET r == NextToken(lexer)
       IN  /\ r.tag = "Ok" /\ ~r.lx.panicked
           /\ r.token.token_type = "EOF"
           /\ lexer' = r.lx
           /\ tokens' = Append(tokens, r.token)
           /\ spans' = Append(spans, <<r.lx.start, r.lx.current>>)
           /\ lexOut' = LexOk(tokens')
    /\ UNCHANGED parser

\* the iteration in which next_token returns Err: tokenize returns it
TokenizeErr ==
    /\ lexOut.tag = "running"
    /\ LET r == NextToken(lexer)
       IN  /\ r.tag = "Err" /\ ~r.lx.panicked
           /\ lexer' = r.lx
           /\ tokens' = <<>>
           /\ spans' = <<>>
           /\ lexOut' = LexErr(tokens, r.err)
    /\ UNCHANGED parser

\* make_token's usize subtraction underflowed: a build with overflow checks
\* panics there (a build without them stores the wrapped column and goes on,
\* which is TokenizePush)
TokenizePanic ==
    /\ lexOut.tag = "running"
    /\ LET r == NextToken(lexer)
       IN  /\ r.underflow \/ r.lx.panicked
           /\ lexer' = r.lx
           /\ tokens' = <<>>
           /\ spans' = <<>>
           /\ lexOut' = LexPanic
    /\ UNCHANGED parser

(***************************************************************************)
(* The sources the lexer is run on: concatenations of chunks.              *)
(***************************************************************************)
Chunks ==
    {<<" ">>, <<"\n">>, <<"\"">>, <<"x">>, <<"l", "e", "t">>, <<"1">>, <<".">>,
     <<"=">>, <<">">>, <<"/">>}

\* the concatenations of at most n chunks
RECURSIVE SourcesUpTo(_)
SourcesUpTo(n) ==
    IF n = 0 THEN {<<>>}
    ELSE LET S == SourcesUpTo(n - 1) IN S \cup {s \o c : s \in S, c \in Chunks}

Sources == SourcesUpTo(MaxChunks)

(***************************************************************************)
(* Parser: src/src/parser/mod.rs                                           *)
(*                                                                         *)
(* The parser is a record [tokens, current, stack, ret, result, panicked]. *)
(* The call stack of the mutually recursive production functions is the    *)
(* sequence stack of frames [fn, pc, name, items]: fn the function, pc the *)
(* place in it, name and items its locals (the name read so far and the    *)
(* modules, statements or fields collected so far).  ret holds the value   *)
(* the last callee returned.  Every call site of a production propagates   *)
(* an Err with `?`, so a failing step unwinds the whole stack.             *)
(***************************************************************************)
NoRet == [tag |-> "none"]

NoParseErr == [kind |-> "none"]

ParseRunning == [tag |-> "running", program |-> <<>>, err |-> NoParseErr]

\* no Parser was built
NoParser ==
    [tokens |-> <<>>, current |-> 0, stack |-> <<>>, ret |-> NoRet,
     result |-> [tag |-> "idle", program |-> <<>>, err |-> NoParseErr],
     panicked |-> FALSE]

\* Parser::new
ParserNew(toks) ==
    [tokens |-> toks, current |-> 0, stack |-> <<[fn |-> "parse", pc |-> "loop",
                                                  name |-> <<>>, items |-> <<>>]>>,
     ret |-> NoRet, result |-> ParseRunning, panicked |-> FALSE]

\* format!("{:?}", token_type): the variant with its payload
DebugFmt(tok) == <<tok.token_type, tok.val>>

\* ParseError::UnexpectedToken built from the token `tok`
UnexpectedToken(expected, tok) ==
    [kind |-> "UnexpectedToken", expected |-> expected, found |-> DebugFmt(tok),
     line |-> tok.line, column |-> tok.column]

Peek(p) == p.tokens[p.current + 1]

IsAtEnd(p) == Peek(p).token_type = "EOF"

\* previous() indexes tokens[current - 1]: with current = 0 the usize
\* subtraction underflows and the index panics
Previous(p) == IF p.current >= 1 THEN p.tokens[p.current] ELSE NoToken

\* a bug: advance at the EOF token steps the cursor back
AdvanceRewindsAtEnd(p) ==
    LET p1 == IF ~IsAtEnd(p) THEN [p EXCEPT !.current = @ + 1]
              ELSE IF p.current >= 1 THEN [p EXCEPT !.current = @ - 1]
              ELSE p
    IN  [p |-> [p1 EXCEPT !.panicked = @ \/ p1.current = 0], tok |-> Previous(p1)]

\* a bug: advance moves the cursor at the EOF token too
AdvancePastEnd(p) ==
    LET p1 == [p EXCEPT !.current = @ + 1]
    IN  [p |-> [p1 EXCEPT !.panicked = @ \/ p1.current = 0], tok |-> Previous(p1)]

\* Parser::advance: the parser after the call and the token returned
Advance(p) ==
    LET p1 == IF ~IsAtEnd(p) THEN [p EXCEPT !.current = @ + 1] ELSE p
    IN  [p |-> [p1 EXCEPT !.panicked = @ \/ p1.current = 0], tok |-> Previous(p1)]

Check(p, token_type) ==
    IF IsAtEnd(p) THEN FALSE ELSE Peek(p).token_type = token_type

\* Parser::match_token
MatchToken(p, token_type) ==
    IF Check(p, token_type)
    THEN [p |-> Advance(p).p, matched |-> TRUE]
    ELSE [p |-> p, matched |-> FALSE]

\* a bug: consume describes the token before the one that does not match
ConsumeReportsPrevious(p, token_type) ==
    IF Check(p, token_type)
    THEN [p |-> Advance(p).p, ok |-> TRUE, err |-> NoParseErr]
    ELSE [p |-> p, ok |-> FALSE, err |-> UnexpectedToken(token_type, Previous(p))]

\* Parser::consume: Ok (and the parser advanced) or Err(err)
Consume(p, token_type) ==
    IF Check(p, token_type)
    THEN [p |-> Advance(p).p, ok |-> TRUE, err |-> NoParseErr]
    ELSE [p |-> p, ok |-> FALSE, err |-> UnexpectedToken(token_type, Peek(p))]

\* the stack of production calls
Frame(fn, pc) == [fn |-> fn, pc |-> pc, name |-> <<>>, items |-> <<>>]

Top(p) == p.stack[Len(p.stack)]

SetTop(p, f) == [p EXCEPT !.stack[Len(p.stack)] = f]

Goto(p, pc) == SetTop(p, [Top(p) EXCEPT !.pc = pc])

\* call a production: the caller resumes at pc `back`
Call(p, back, fn, pc) == [Goto(p, back) EXCEPT !.stack = Append(@, Frame(fn, pc))]

\* a production that returns another's result hands its frame over
TailCall(p, fn, pc) == SetTop(p, Frame(fn, pc))

Return(p, v) ==
    [p EXCEPT !.stack = SubSeq(@, 1, Len(@) - 1), !.ret = v]

\* a bug: the modules parsed before the error are handed back with it
FailWithPartialProgram(p, err) ==
    [p EXCEPT !.stack = <<>>, !.ret = NoRet,
              !.result = [tag |-> "Err", program |-> p.stack[1].items, err |-> err]]

\* return Err(err): every caller propagates it with `?`, up to parse
Fail(p, err) ==
    [p EXCEPT !.stack = <<>>, !.ret = NoRet,
              !.result = [tag |-> "Err", program |-> <<>>, err |-> err]]

\* Ok(program) of parse
Finish(p, modules) ==
    [p EXCEPT !.stack = <<>>, !.ret = NoRet,
              !.result = [tag |-> "Ok", program |-> modules, err |-> NoParseErr]]

\* a bug: the item takes the place of the ones collected before it
PushOnly(items, item) == <<item>>

\* a bug: the item is put in front of the ones collected before it
PushFront(items, item) == <<item>> \o items

\* Vec::push of a module, statement or field onto the list collected so far
PushItem(items, item) == Append(items, item)

\* `match &self.advance().token_type { Identifier(name) => .., _ => Err(..) }`:
\* the name is kept in the frame and the function goes on at pc `next`
ExpectName(p, next) ==
    LET a == Advance(p)
    IN  IF a.tok.token_type = "Identifier"
        THEN SetTop(a.p, [Top(a.p) EXCEPT !.name = a.tok.val, !.pc = next])
        ELSE Fail(a.p, UnexpectedToken("identifier", Previous(a.p)))

\* a bug: the loop of parse looks for `module` before it tests is_at_end
ParseStepNoEndTest(p) ==
    LET f == Top(p)
    IN  IF f.pc = "loop"
        THEN LET m == MatchToken(p, "Module")
             IN  IF m.matched THEN Call(m.p, "ret", "parse_module", "name")
                 ELSE Fail(p, UnexpectedToken("module", Peek(p)))
        ELSE [SetTop(p, [f EXCEPT !.items = PushItem(@, p.ret), !.pc = "loop"])
                EXCEPT !.ret = NoRet]

\* a bug: the loop of parse stops at a token that is not `module`
ParseStepStopsAtStray(p) ==
    LET f == Top(p)
    IN  IF f.pc = "loop"
        THEN IF IsAtEnd(p) THEN Finish(p, f.items)
             ELSE LET m == MatchToken(p, "Module")
                  IN  IF m.matched THEN Call(m.p, "ret", "parse_module", "name")
                      ELSE Finish(p, f.items)
        ELSE [SetTop(p, [f EXCEPT !.items = PushItem(@, p.ret), !.pc = "loop"])
                EXCEPT !.ret = NoRet]

\* a bug: the loop of parse goes round on a token that is not `module`
\* and does not consume it
ParseStepSpins(p) ==
    LET f == Top(p)
    IN  IF f.pc = "loop"
        THEN IF IsAtEnd(p) THEN Finish(p, f.items)
             ELSE LET m == MatchToken(p, "Module")
                  IN  IF m.matched THEN Call(m.p, "ret", "parse_module", "name")
                      ELSE p
        ELSE [SetTop(p, [f EXCEPT !.items = PushItem(@, p.ret), !.pc = "loop"])
                EXCEPT !.ret = NoRet]

\* Parser::parse
ParseStep(p) ==
    LET f == Top(p)
    IN  IF f.pc = "loop"
        THEN IF IsAtEnd(p) THEN Finish(p, f.items)
             ELSE LET m == MatchToken(p, "Module")
                  IN  IF m.matched THEN Call(m.p, "ret", "parse_module", "name")
                      ELSE Fail(p, UnexpectedToken("module", Peek(p)))
        ELSE \* "ret": program.modules.push(module)
             [SetTop(p, [f EXCEPT !.items = PushItem(@, p.ret), !.pc = "loop"])
                EXCEPT !.ret = NoRet]

\* Parser::parse_module
ParseModuleStep(p) ==
    LET f == Top(p)
    IN  IF f.pc = "name" THEN ExpectName(p, "lbrace")
        ELSE IF f.pc = "lbrace"
        THEN LET c == Consume(p, "LeftBrace")
             IN  IF c.ok THEN Goto(c.p, "loop") ELSE Fail(p, c.err)
        ELSE IF f.pc = "loop"
        THEN IF ~Check(p, "RightBrace") /\ ~IsAtEnd(p)
             THEN Call(p, "ret", "parse_statement", "start")
             ELSE LET c == Consume(p, "RightBrace")
                  IN  IF c.ok
                      THEN Return(c.p, [tag |-> "Module", name |-> f.name,
                                        statements |-> f.items])
                      ELSE Fail(p, c.err)
        ELSE \* "ret": statements.push(statement)
             [SetTop(p, [f EXCEPT !.items = PushItem(@, p.ret), !.pc = "loop"])
                EXCEPT !.ret = NoRet]

\* Parser::parse_statement
ParseStatementStep(p) ==
    LET l == MatchToken(p, "Let")
        c == MatchToken(p, "Const")
        t == MatchToken(p, "Type")
    IN  IF l.matched THEN TailCall(l.p, "parse_let_statement", "name")
        ELSE IF c.matched THEN TailCall(c.p, "parse_const_statement", "name")
        ELSE IF t.matched THEN TailCall(t.p, "parse_type_definition", "name")
        ELSE Fail(p, UnexpectedToken("let, const, or type", Peek(p)))

\* the common body of parse_let_statement and parse_const_statement
BindingStep(p, tag) ==
    LET f == Top(p)
    IN  IF f.pc = "name" THEN ExpectName(p, "equals")
        ELSE IF f.pc = "equals"
        THEN LET c == Consume(p, "Equals")
             IN  IF c.ok THEN Call(c.p, "ret", "parse_expression", "start")
                 ELSE Fail(p, c.err)
        ELSE \* "ret": Ok(Statement::Let { name, value })
             Return(p, [tag |-> tag, name |-> f.name, value |-> p.ret])

\* Parser::parse_let_statement
ParseLetStatementStep(p) == BindingStep(p, "Let")

\* Parser::parse_const_statement
ParseConstStatementStep(p) == BindingStep(p, "Const")

\* a bug: the comma after a field is consumed as a required token
RequireComma(p) ==
    IF Check(p, "Comma") THEN Advance(p).p
    ELSE Fail(p, UnexpectedToken("Comma", Peek(p)))

\* `if self.check(&TokenType::Comma) { self.advance(); }` after a field
SkipComma(p) == IF Check(p, "Comma") THEN Advance(p).p ELSE p

\* Parser::parse_type_definition
ParseTypeDefinitionStep(p) ==
    LET f == Top(p)
    IN  IF f.pc = "name" THEN ExpectName(p, "arrow")
        ELSE IF f.pc = "arrow"
        THEN LET c == Consume(p, "Arrow")
             IN  IF c.ok THEN Goto(c.p, "lbrace") ELSE Fail(p, c.err)
        ELSE IF f.pc = "lbrace"
        THEN LET c == Consume(p, "LeftBrace")
             IN  IF c.ok THEN Goto(c.p, "loop") ELSE Fail(p, c.err)
        ELSE IF f.pc = "loop"
        THEN IF ~Check(p, "RightBrace") /\ ~IsAtEnd(p)
             THEN Call(p, "ret", "parse_type_field", "name")
             ELSE LET c == Consume(p, "RightBrace")
                  IN  IF c.ok
                      THEN Return(c.p, [tag |-> "TypeDef", name |-> f.name,
                                        fields |-> f.items])
                      ELSE Fail(p, c.err)
        ELSE \* "ret": fields.push(field); skip a comma
             LET q == SetTop(p, [f EXCEPT !.items = PushItem(@, p.ret), !.pc = "loop"])
             IN  SkipComma([q EXCEPT !.ret = NoRet])

\* Parser::parse_type_field
ParseTypeFieldStep(p) ==
    LET f == Top(p)
    IN  IF f.pc = "name" THEN ExpectName(p, "colon")
        ELSE IF f.pc = "colon"
        THEN LET c == Consume(p, "Colon")
             IN  IF c.ok THEN Call(c.p, "ret", "parse_type", "start")
                 ELSE Fail(p, c.err)
        ELSE \* "ret": Ok(TypeField { name, field_type })
             Return(p, [name |-> f.name, field_type |-> p.ret])

\* Parser::parse_type
ParseTypeStep(p) ==
    LET a == Advance(p)
        tt == a.tok.token_type
    IN  IF tt \in {"Number", "String", "Boolean"} THEN Return(a.p, [tag |-> tt])
        ELSE IF tt = "Identifier"
        THEN Return(a.p, [tag |-> "Custom", name |-> a.tok.val])
        ELSE Fail(a.p, UnexpectedToken("type", Previous(a.p)))

\* ParseError::InvalidExpression and ParseError::UnexpectedEOF at the token `tok`
InvalidExpression(message, tok) ==
    [kind |-> "InvalidExpression", message |-> message, line |-> tok.line,
     column |-> tok.column]

UnexpectedEOF(tok) == [kind |-> "UnexpectedEOF", line |-> tok.line, column |-> tok.column]

\* impl fmt::Display for ParseError, as write! is called: the pieces of the
\* format string, cut at the `{}` and around the word "Expected", and the
\* arguments
DisplayParseError(err) ==
    IF err.kind = "UnexpectedToken"
    THEN [format |-> <<"Unexpected token at line ", ", column ", ". ", "Expected",
                       " ", ", found ">>,
          args |-> <<err.line, err.column, err.expected, err.found>>]
    ELSE IF err.kind = "InvalidExpression"
    THEN [format |-> <<"Invalid expression at line ", ", column ", ": ">>,
          args |-> <<err.line, err.column, err.message>>]
    ELSE [format |-> <<"Unexpected end of file at line ", ", column ">>,
          args |-> <<err.line, err.column>>]

\* a bug: parse_expression reports what is no expression as InvalidExpression,
\* and the end of input as UnexpectedEOF
ParseExpressionStepOtherErrors(p) ==
    LET tt == Peek(p).token_type
    IN  IF tt \in {"NumberLiteral", "StringLiteral", "BooleanLiteral", "Identifier"}
        THEN TailCall(p, "parse_primary", "start")
        ELSE IF tt = "LeftBrace" THEN TailCall(p, "parse_object_expression", "lbrace")
        ELSE IF tt = "EOF" THEN Fail(p, UnexpectedEOF(Peek(p)))
        ELSE Fail(p, InvalidExpression("expression", Peek(p)))

\* Parser::parse_expression
ParseExpressionStep(p) ==
    LET tt == Peek(p).token_type
    IN  IF tt \in {"NumberLiteral", "StringLiteral", "BooleanLiteral", "Identifier"}
        THEN TailCall(p, "parse_primary", "start")
        ELSE IF tt = "LeftBrace" THEN TailCall(p, "parse_object_expression", "lbrace")
        ELSE Fail(p, UnexpectedToken("expression", Peek(p)))

\* Parser::parse_primary
ParsePrimaryStep(p) ==
    LET a == Advance(p)
        tt == a.tok.token_type
    IN  IF tt \in {"NumberLiteral", "StringLiteral", "BooleanLiteral", "Identifier"}
        THEN Return(a.p, [tag |-> tt, value |-> a.tok.val])
        ELSE Fail(a.p, UnexpectedToken("literal or identifier", a.tok))

\* Parser::parse_object_expression
ParseObjectExpressionStep(p) ==
    LET f == Top(p)
    IN  IF f.pc = "lbrace"
        THEN LET c == Consume(p, "LeftBrace")
             IN  IF c.ok THEN Goto(c.p, "loop") ELSE Fail(p, c.err)
        ELSE IF f.pc = "loop"
        THEN IF ~Check(p, "RightBrace") /\ ~IsAtEnd(p)
             THEN ExpectName(p, "colon")
             ELSE LET c == Consume(p, "RightBrace")
                  IN  IF c.ok THEN Return(c.p, [tag |-> "Object", fields |-> f.items])
                      ELSE Fail(p, c.err)
        ELSE IF f.pc = "colon"
        THEN LET c == Consume(p, "Colon")
             IN  IF c.ok THEN Call(c.p, "ret", "parse_expression", "start")
                 ELSE Fail(p, c.err)
        ELSE \* "ret": fields.push((name, value)); skip a comma
             LET q == SetTop(p, [f EXCEPT !.items = PushItem(@, <<f.name, p.ret>>),
                                          !.pc = "loop"])
             IN  SkipComma([q EXCEPT !.ret = NoRet])

\* a panic (an index out of range) aborts the parse
Panicked(p) ==
    [p EXCEPT !.stack = <<>>, !.ret = NoRet,
              !.result = [tag |-> "Panic", program |-> <<>>, err |-> NoParseErr]]

\* one step of the function on top of the stack
ParserStep(p) ==
    LET fn == Top(p).fn
        q == IF fn = "parse" THEN ParseStep(p)
             ELSE IF fn = "parse_module" THEN ParseModuleStep(p)
             ELSE IF fn = "parse_statement" THEN ParseStatementStep(p)
             ELSE IF fn = "parse_let_statement" THEN ParseLetStatementStep(p)
             ELSE IF fn = "parse_const_statement" THEN ParseConstStatementStep(p)
             ELSE IF fn = "parse_type_definition" THEN ParseTypeDefinitionStep(p)
             ELSE IF fn = "parse_type_field" THEN ParseTypeFieldStep(p)
             ELSE IF fn = "parse_type" THEN ParseTypeStep(p)
             ELSE IF fn = "parse_expression" THEN ParseExpressionStep(p)
             ELSE IF fn = "parse_primary" THEN ParsePrimaryStep(p)
             ELSE ParseObjectExpressionStep(p)
    IN  IF q.panicked THEN Panicked(q) ELSE q

\* parse() run to its end on a complete token vector
RECURSIVE RunParser(_)
RunParser(p) == IF p.result.tag # "running" THEN p ELSE RunParser(ParserStep(p))

Parse(toks) == RunParser(ParserNew(toks)).result

(***************************************************************************)
(* Parser::parse as a state machine.  The token vector is fixed when the   *)
(* parser is built; the parser reads only tokens[current] and              *)
(* tokens[current - 1], so the model discloses the vector one token at a   *)
(* time, when the cursor first reaches it: parser.tokens is the part of    *)
(* the vector read so far, and every vector of at most MaxTokens tokens    *)
(* that ends with EOF is covered.                                          *)
(***************************************************************************)
TokenKinds ==
    {<<"Module", <<>>>>, <<"Type", <<>>>>, <<"Const", <<>>>>, <<"Let", <<>>>>,
     <<"Number", <<>>>>, <<"LeftBrace", <<>>>>, <<"RightBrace", <<>>>>,
     <<"Colon", <<>>>>, <<"Arrow", <<>>>>, <<"Equals", <<>>>>, <<"Comma", <<>>>>,
     <<"Identifier", <<"x">>>>,
     <<"NumberLiteral", <<"1">>>>, <<"EOF", <<>>>>}

\* the i-th token of the vector (i from 1), of kind k, with its position
TokenAt(k, i) ==
    [token_type |-> k[1], val |-> k[2],
     line |-> 1 + ((i - 1) \div TokensPerLine),
     column |-> 1 + 2 * ((i - 1) % TokensPerLine)]

\* the cursor reaches a token of the vector for the first time
Supply ==
    /\ parser.result.tag = "running"
    /\ parser.current = Len(parser.tokens)
    /\ \E k \in TokenKinds :
          /\ Len(parser.tokens) + 1 >= MaxTokens => k[1] = "EOF"
          /\ parser' = [parser EXCEPT
                          !.tokens = Append(@, TokenAt(k, Len(parser.tokens) + 1))]
    /\ UNCHANGED <<lexer, tokens, spans, lexOut>>

\* the production function fn is on top of the stack and its next token is read
Running(fn) ==
    /\ parser.result.tag = "running"
    /\ parser.current < Len(parser.tokens)
    /\ Top(parser).fn = fn

\* a step of Parser::parse
DoParse ==
    /\ Running("parse")
    /\ parser' = ParserStep(parser)
    /\ UNCHANGED <<lexer, tokens, spans, lexOut>>

\* a step of Parser::parse_module
DoParseModule ==
    /\ Running("parse_module")
    /\ parser' = ParserStep(parser)
    /\ UNCHANGED <<lexer, tokens, spans, lexOut>>

\* a step of Parser::parse_statement
DoParseStatement ==
    /\ Running("parse_statement")
    /\ parser' = ParserStep(parser)
    /\ UNCHANGED <<lexer, tokens, spans, lexOut>>

\* a step of Parser::parse_let_statement
DoParseLetStatement ==
    /\ Running("parse_let_statement")
    /\ parser' = ParserStep(parser)
    /\ UNCHANGED <<lexer, tokens, spans, lexOut>>

\* a step of Parser::parse_const_statement
DoParseConstStatement ==
    /\ Running("parse_const_statement")
    /\ parser' = ParserStep(parser)
    /\ UNCHANGED <<lexer, tokens, spans, lexOut>>

\* a step of Parser::parse_type_definition
DoParseTypeDefinition ==
    /\ Running("parse_type_definition")
    /\ parser' = ParserStep(parser)
    /\ UNCHANGED <<lexer, tokens, spans, lexOut>>

\* a step of Parser::parse_type_field
DoParseTypeField ==
    /\ Running("parse_type_field")
    /\ parser' = ParserStep(parser)
    /\ UNCHANGED <<lexer, tokens, spans, lexOut>>

\* a step of Parser::parse_type
DoParseType ==
    /\ Running("parse_type")
    /\ parser' = ParserStep(parser)
    /\ UNCHANGED <<lexer, tokens, spans, lexOut>>

\* a step of Parser::parse_expression
DoParseExpression ==
    /\ Running("parse_expression")
    /\ parser' = ParserStep(parser)
    /\ UNCHANGED <<lexer, tokens, spans, lexOut>>

\* a step of Parser::parse_primary
DoParsePrimary ==
    /\ Running("parse_primary")
    /\ parser' = ParserStep(parser)
    /\ UNCHANGED <<lexer, tokens, spans, lexOut>>

\* a step of Parser::parse_object_expression
DoParseObjectExpression ==
    /\ Running("parse_object_expression")
    /\ parser' = ParserStep(parser)
    /\ UNCHANGED <<lexer, tokens, spans, lexOut>>

(***************************************************************************)
(* Specifications.                                                         *)
(***************************************************************************)
\* main.rs: the tokens tokenize returned are handed to Parser::new
MainParse ==
    /\ lexOut.tag = "Ok"
    /\ parser = NoParser
    /\ parser' = ParserNew(lexOut.tokens)
    /\ UNCHANGED <<lexer, tokens, spans, lexOut>>

\* tokenize on every source of Sources
LexInit ==
    /\ lexer \in {LexerNew(s) : s \in Sources}
    /\ tokens = <<>>
    /\ spans = <<>>
    /\ lexOut = LexRunning
    /\ parser = NoParser

LexNext == TokenizePush \/ TokenizeEOF \/ TokenizeErr \/ TokenizePanic

SpecLexer == LexInit /\ [][LexNext]_vars

\* parse on every token vector
ParseInit ==
    /\ lexer = LexerNew(<<>>)
    /\ tokens = <<>>
    /\ spans = <<>>
    /\ lexOut = LexIdle
    /\ parser = ParserNew(<<>>)

ParseNext ==
    \/ Supply
    \/ DoParse
    \/ DoParseModule
    \/ DoParseStatement
    \/ DoParseLetStatement
    \/ DoParseConstStatement
    \/ DoParseTypeDefinition
    \/ DoParseTypeField
    \/ DoParseType
    \/ DoParseExpression
    \/ DoParsePrimary
    \/ DoParseObjectExpression

SpecParser == ParseInit /\ [][ParseNext]_vars

\* both stages: main.rs runs tokenize on a source and parse on its tokens;
\* the tests also build a Parser on a token vector of their own
Init == LexInit \/ ParseInit

Next == LexNext \/ MainParse \/ ParseNext

Spec == Init /\ [][Next]_vars

\* main.rs and the tests from their start: nothing is built yet
IdleInit ==
    /\ lexer = LexerNew(<<>>)
    /\ tokens = <<>>
    /\ spans = <<>>
    /\ lexOut = LexIdle
    /\ parser = NoParser

\* Lexer::new(&source) and the call of tokenize, on a source of Sources
LexerStart ==
    /\ lexOut = LexIdle
    /\ parser = NoParser
    /\ \E s \in Sources : lexer' = LexerNew(s)
    /\ lexOut' = LexRunning
    /\ UNCHANGED <<tokens, spans, parser>>

\* Parser::new(tokens) and the call of parse, on a token vector not made by
\* the lexer
ParserStart ==
    /\ lexOut = LexIdle
    /\ parser = NoParser
    /\ parser' = ParserNew(<<>>)
    /\ UNCHANGED <<lexer, tokens, spans, lexOut>>

RunNext == LexerStart \/ ParserStart \/ Next

\* both stages, with weak fairness on the steps of parse: a call of parse that
\* can take its next step takes it
SpecFair == IdleInit /\ [][RunNext]_vars /\ WF_vars(ParseNext)

(***************************************************************************)
(* Positions in a source text, as the specification defines them: lines    *)
(* and columns count from 1, a newline ends its line.                      *)
(***************************************************************************)
\* the 1-based indices of the newlines among the first n characters
NewlinesBefore(input, n) == {j \in 1..n : input[j] = "\n"}

\* the line of the character at 0-based offset i
LineOf(input, i) == 1 + Cardinality(NewlinesBefore(input, i))

\* the column of the character at 0-based offset i
ColumnOf(input, i) ==
    LET nl == NewlinesBefore(input, i)
    IN  IF nl = {} THEN i + 1
        ELSE i - (CHOOSE j \in nl : \A k \in nl : k <= j) + 1

\* the k-th token made holds no newline
SingleLine(k) ==
    \A j \in (spans[k][1] + 1)..spans[k][2] : lexer.input[j] # "\n"

\* the k-th token made carries the position of its first character
AtFirstCharacter(k) ==
    /\ tokens[k].line = LineOf(lexer.input, spans[k][1])
    /\ tokens[k].column = ColumnOf(lexer.input, spans[k][1])

(***************************************************************************)
(* C1: every token that lies within one line (EOF included) records the    *)
(* line and column of its first character, counted from 1, on every line   *)
(* of the source.  The code does not: the newline arm of skip_whitespace   *)
(* sets column to 1 and then advances over the newline, so the first       *)
(* character of every line after the first is at column 2.                 *)
(***************************************************************************)
C1_TokenPosition ==
    \A k \in 1..Len(tokens) : SingleLine(k) => AtFirstCharacter(k)

(***************************************************************************)
(* C4: a string literal that holds a newline records the position of its   *)
(* opening quote, and make_token's column - (current - start) does not     *)
(* underflow.  The code does neither: the token gets the line of its       *)
(* closing quote, and the column of the closing quote less the length of   *)
(* the whole literal.                                                      *)
(***************************************************************************)
C4_MultiLineString ==
    /\ lexOut.tag # "Panic"
    /\ \A k \in 1..Len(tokens) :
          tokens[k].token_type = "StringLiteral" /\ ~SingleLine(k)
             => AtFirstCharacter(k) /\ tokens[k].column >= 1

(***************************************************************************)
(* The grammar of section 4.3 of the specification, as a recognizer on     *)
(* token vectors.  Each operator takes the index of the first token of a   *)
(* construct and gives the index after its last one, or 0 when the tokens  *)
(* from there derive no such construct.                                    *)
(***************************************************************************)
Is(T, i, token_type) == i >= 1 /\ i <= Len(T) /\ T[i].token_type = token_type

RECURSIVE GExpression(_, _), GObjectFields(_, _)
\* Expression := Literal | Identifier | ObjectLiteral
GExpression(T, i) ==
    IF \E tt \in {"NumberLiteral", "StringLiteral", "BooleanLiteral", "Identifier"} :
          Is(T, i, tt)
    THEN i + 1
    ELSE IF ~Is(T, i, "LeftBrace") THEN 0
    ELSE IF Is(T, i + 1, "RightBrace") THEN i + 2
    ELSE GObjectFields(T, i + 1)

\* Identifier ':' Expression (',' Identifier ':' Expression)* ','? '}'
GObjectFields(T, i) ==
    IF ~(Is(T, i, "Identifier") /\ Is(T, i + 1, "Colon")) THEN 0
    ELSE LET j == GExpression(T, i + 2)
         IN  IF j = 0 THEN 0
             ELSE IF Is(T, j, "RightBrace") THEN j + 1
             ELSE IF ~Is(T, j, "Comma") THEN 0
             ELSE IF Is(T, j + 1, "RightBrace") THEN j + 2
             ELSE GObjectFields(T, j + 1)

\* TypeField (',' TypeField)* ','? '}'
RECURSIVE GTypeFields(_, _)
GTypeFields(T, i) ==
    IF ~(/\ Is(T, i, "Identifier")
         /\ Is(T, i + 1, "Colon")
         /\ \E tt \in {"Number", "String", "Boolean", "Identifier"} : Is(T, i + 2, tt))
    THEN 0
    ELSE IF Is(T, i + 3, "RightBrace") THEN i + 4
    ELSE IF ~Is(T, i + 3, "Comma") THEN 0
    ELSE IF Is(T, i + 4, "RightBrace") THEN i + 5
    ELSE GTypeFields(T, i + 4)

\* Statement := LetStmt | ConstStmt | TypeDefStmt
GStatement(T, i) ==
    IF (Is(T, i, "Let") \/ Is(T, i, "Const"))
       /\ Is(T, i + 1, "Identifier") /\ Is(T, i + 2, "Equals")
    THEN GExpression(T, i + 3)
    ELSE IF /\ Is(T, i, "Type") /\ Is(T, i + 1, "Identifier")
            /\ Is(T, i + 2, "Arrow") /\ Is(T, i + 3, "LeftBrace")
    THEN GTypeFields(T, i + 4)
    ELSE 0

\* Statement* '}'
RECURSIVE GModuleBody(_, _)
GModuleBody(T, i) ==
    IF Is(T, i, "RightBrace") THEN i + 1
    ELSE LET j == GStatement(T, i) IN IF j = 0 THEN 0 ELSE GModuleBody(T, j)

\* Program := Module*, then the EOF token that ends the vector
RECURSIVE GProgram(_, _)
GProgram(T, i) ==
    IF Is(T, i, "EOF") THEN i = Len(T)
    ELSE IF /\ Is(T, i, "Module") /\ Is(T, i + 1, "Identifier")
            /\ Is(T, i + 2, "LeftBrace")
    THEN LET j == GModuleBody(T, i + 3) IN IF j = 0 THEN FALSE ELSE GProgram(T, j)
    ELSE FALSE

Derivable(T) == GProgram(T, 1)

\* the whole vector was read: its last token is the EOF token
Complete(p) == p.tokens # <<>> /\ p.tokens[Len(p.tokens)].token_type = "EOF"

(***************************************************************************)
(* C2: an UnexpectedToken error describes the first token that cannot      *)
(* continue the grammar (the last token the parser read), the EOF token    *)
(* when the vector ends too early.  The code does not where a name or a    *)
(* type is read with advance() and reported with previous(): at EOF        *)
(* advance() does not move, and the error describes the token before EOF.  *)
(***************************************************************************)
C2_ErrorDescribesOffendingToken ==
    parser.result.tag = "Err" /\ parser.result.err.kind = "UnexpectedToken"
       => LET t == parser.tokens[Len(parser.tokens)]
          IN  /\ parser.result.err.found = DebugFmt(t)
              /\ parser.result.err.line = t.line
              /\ parser.result.err.column = t.column

(***************************************************************************)
(* C3: parse returns Ok exactly for the EOF-terminated token vectors the   *)
(* grammar of section 4.3 derives.  The code accepts more: a type          *)
(* definition with no field, and fields with no comma between them.        *)
(***************************************************************************)
C3_OkIffDerivable ==
    /\ parser.result.tag = "Ok" => Derivable(parser.tokens)
    /\ parser.result.tag = "Err" /\ Complete(parser) => ~Derivable(parser.tokens)

(***************************************************************************)
(* C5: when tokenize returns Ok the vector is not empty, its last token is *)
(* the EOF token and no other token is; it is the tokens next_token gives  *)
(* when called again and again, up to and with the first EOF.              *)
(***************************************************************************)
\* a token vector has column < 0 where make_token's subtraction wrapped
Wrapped(toks) == \E k \in 1..Len(toks) : toks[k].column < 0

C5_OneEOFLast ==
    lexOut.tag = "Ok"
       => LET t == lexOut.tokens
          IN  /\ Len(t) >= 1
              /\ t[Len(t)].token_type = "EOF"
              /\ \A k \in 1..(Len(t) - 1) : t[k].token_type # "EOF"
              /\ t = tokens
              /\ t = Tokenize(lexer.input, ~Wrapped(t)).tokens

C5_Witness == lexOut.tag = "Ok" /\ Len(lexOut.tokens) >= 3

(***************************************************************************)
(* The token kinds an AST stands for, in source order: the token vector    *)
(* it was parsed from, less the commas and the EOF token.                  *)
(***************************************************************************)
Kind(token_type) == <<token_type, <<>>>>

RECURSIVE UnparseExpression(_), UnparseFields(_)
UnparseExpression(e) ==
    IF e.tag = "Object"
    THEN <<Kind("LeftBrace")>> \o UnparseFields(e.fields) \o <<Kind("RightBrace")>>
    ELSE <<<<e.tag, e.value>>>>

UnparseFields(fs) ==
    IF fs = <<>> THEN <<>>
    ELSE <<<<"Identifier", fs[1][1]>>, Kind("Colon")>>
            \o UnparseExpression(fs[1][2]) \o UnparseFields(Tail(fs))

UnparseType(t) == IF t.tag = "Custom" THEN <<"Identifier", t.name>> ELSE Kind(t.tag)

RECURSIVE UnparseTypeFields(_)
UnparseTypeFields(fs) ==
    IF fs = <<>> THEN <<>>
    ELSE <<<<"Identifier", fs[1].name>>, Kind("Colon"), UnparseType(fs[1].field_type)>>
            \o UnparseTypeFields(Tail(fs))

UnparseStatement(st) ==
    IF st.tag = "TypeDef"
    THEN <<Kind("Type"), <<"Identifier", st.name>>, Kind("Arrow"), Kind("LeftBrace")>>
            \o UnparseTypeFields(st.fields) \o <<Kind("RightBrace")>>
    ELSE <<Kind(st.tag), <<"Identifier", st.name>>, Kind("Equals")>>
            \o UnparseExpression(st.value)

RECURSIVE UnparseStatements(_)
UnparseStatements(sts) ==
    IF sts = <<>> THEN <<>>
    ELSE UnparseStatement(sts[1]) \o UnparseStatements(Tail(sts))

RECURSIVE UnparseProgram(_)
UnparseProgram(ms) ==
    IF ms = <<>> THEN <<>>
    ELSE <<Kind("Module"), <<"Identifier", ms[1].name>>, Kind("LeftBrace")>>
            \o UnparseStatements(ms[1].statements) \o <<Kind("RightBrace")>>
            \o UnparseProgram(Tail(ms))

\* the kinds of the tokens of T that are neither Comma nor EOF, in order
RECURSIVE KindsLessCommas(_)
KindsLessCommas(T) ==
    IF T = <<>> THEN <<>>
    ELSE IF T[1].token_type \in {"Comma", "EOF"} THEN KindsLessCommas(Tail(T))
    ELSE <<DebugFmt(T[1])>> \o KindsLessCommas(Tail(T))

(***************************************************************************)
(* C6: both stages fail fast and hand back no partial result.  An Err of   *)
(* tokenize carries no token, and no lexical error lies to the left of the *)
(* token it failed on.  An Err of parse carries no Program and describes   *)
(* the token the cursor stopped at or the one before it.  An Ok of parse   *)
(* means the whole vector, up to EOF, was parsed into the Program.         *)
(***************************************************************************)
C6_FailFast ==
    /\ lexOut.tag = "Err"
          => /\ lexOut.tokens = <<>>
             /\ Tokenize(SubSeq(lexer.input, 1, lexer.start), FALSE).tag = "Ok"
    /\ parser.result.tag = "Err"
          => /\ parser.result.program = <<>>
             /\ parser.stack = <<>>
             /\ \E i \in {parser.current, parser.current + 1} :
                   /\ i >= 1
                   /\ parser.result.err.line = parser.tokens[i].line
                   /\ parser.result.err.column = parser.tokens[i].column
    /\ parser.result.tag = "Ok"
          => /\ Complete(parser)
             /\ parser.current = Len(parser.tokens) - 1
             /\ UnparseProgram(parser.result.program) = KindsLessCommas(parser.tokens)

\* an error of each stage after something was scanned or parsed before it
C6_Witness ==
    \/ lexOut.tag = "Err" /\ lexer.start >= 2
    \/ /\ parser.result.tag = "Err"
       /\ \E i \in 1..Len(parser.tokens) : parser.tokens[i].token_type = "RightBrace"
       /\ parser.current >= 5

(***************************************************************************)
(* C7: the empty source tokenizes to the EOF token alone, at line 1 and    *)
(* column 1, and parse of a vector that holds only the EOF token is Ok     *)
(* with a Program of no module.                                            *)
(***************************************************************************)
C7_EmptyInput ==
    /\ lexer.input = <<>> /\ lexOut.tag \notin {"idle", "running"}
          => lexOut = LexOk(<<[token_type |-> "EOF", val |-> <<>>,
                               line |-> 1, column |-> 1]>>)
    /\ (parser.result.tag \notin {"idle", "running"}
          /\ parser.tokens[1].token_type = "EOF")
          => /\ parser.result.tag = "Ok"
             /\ parser.result.program = <<>>

\* main.rs on the empty source, to the end of parse
C7_Witness ==
    /\ lexer.input = <<>>
    /\ lexOut.tag = "Ok"
    /\ parser.result.tag = "Ok"
    /\ Len(parser.tokens) = 1

(***************************************************************************)
(* C8: a token vector with one comma between the last field of an object   *)
(* literal or type definition and the closing brace parses to the same AST *)
(* as the vector without that comma.                                       *)
(***************************************************************************)
\* the indices of the commas of T that stand right before a closing brace
TrailingCommas(T) ==
    {i \in 1..(Len(T) - 1) :
        T[i].token_type = "Comma" /\ T[i + 1].token_type = "RightBrace"}

\* T without its i-th token
Without(T, i) == SubSeq(T, 1, i - 1) \o SubSeq(T, i + 1, Len(T))

C8_TrailingComma ==
    parser.result.tag = "Ok"
       => \A i \in TrailingCommas(parser.tokens) :
             Parse(Without(parser.tokens, i)) = parser.result

\* a trailing comma after a field of a type definition or of an object literal
C8_Witness ==
    /\ parser.result.tag = "Ok"
    /\ \E i \in TrailingCommas(parser.tokens) :
          parser.tokens[i - 1].token_type \in {"Number", "NumberLiteral", "RightBrace"}

(***************************************************************************)
(* C9: the AST keeps the fields of every object literal and type           *)
(* definition, the statements of every module and the modules of the       *)
(* Program in the order of the token vector, none dropped, none merged:    *)
(* written back as tokens the Program is the vector less its commas.       *)
(***************************************************************************)
C9_SourceOrder ==
    parser.result.tag = "Ok"
       => UnparseProgram(parser.result.program) = KindsLessCommas(parser.tokens)

\* an object literal of two fields that differ
C9_Witness ==
    /\ parser.result.tag = "Ok"
    /\ \E m \in 1..Len(parser.result.program) :
          \E k \in 1..Len(parser.result.program[m].statements) :
             LET st == parser.result.program[m].statements[k]
             IN  /\ st.tag # "TypeDef"
                 /\ st.value.tag = "Object"
                 /\ Len(st.value.fields) = 2
                 /\ st.value.fields[1] # st.value.fields[2]

(***************************************************************************)
(* C10: whitespace and the token-type sequence.                            *)
(***************************************************************************)
\* the runs of whitespace put into a source
WhitespaceRuns == {<<" ">>, <<"\t">>, <<"\n">>, <<"\n", " ">>}

\* the source with the run ws put in before the character at 0-based offset i
Insert(input, i, ws) == SubSeq(input, 1, i) \o ws \o SubSeq(input, i + 1, Len(input))

\* the token types, with their values, of a token vector
TokenTypes(toks) == [k \in 1..Len(toks) |-> DebugFmt(toks[k])]

\* tokenize on the source P2 gives the token types tokenize gave here
SameTokenTypes(P2) ==
    LET r == Tokenize(P2, ~Wrapped(lexOut.tokens))
    IN  r.tag = "Ok" /\ TokenTypes(r.tokens) = TokenTypes(lexOut.tokens)

\* the tokens made by identifier(), number() and string()
WordTokenTypes ==
    {"Identifier", "Module", "Type", "Const", "Let", "Number", "String", "Boolean",
     "BooleanLiteral", "NumberLiteral", "StringLiteral"}

\* the 0-based offset i lies strictly inside an identifier, number or string
InsideWord(i) ==
    \E k \in 1..Len(spans) :
       /\ tokens[k].token_type \in WordTokenTypes
       /\ spans[k][1] < i
       /\ i < spans[k][2]

\* the j-th character of the source belongs to a string literal
InsideString(j) ==
    \E k \in 1..Len(spans) :
       /\ tokens[k].token_type = "StringLiteral"
       /\ spans[k][1] < j
       /\ j <= spans[k][2]

\* the sources the claim as written allows: a run of whitespace put in at any
\* place not inside an identifier, number or string token, or a whitespace
\* character outside the string literals taken out
WhitespaceEdits ==
    {Insert(lexer.input, i, ws) :
        i \in {i \in 0..Len(lexer.input) : ~InsideWord(i)}, ws \in WhitespaceRuns}
    \cup {Without(lexer.input, j) :
             j \in {j \in 1..Len(lexer.input) :
                       lexer.input[j] \in {" ", "\t", "\n"} /\ ~InsideString(j)}}

(***************************************************************************)
(* C10 as written: any such edit of a source that tokenizes leaves the     *)
(* token-type sequence as it was.  It does not: a space put inside `=>`    *)
(* or `//` splits it, and the whitespace taken out from between two        *)
(* identifiers, keywords or numbers joins them.                            *)
(***************************************************************************)
C10_AnyWhitespaceEdit ==
    lexOut.tag = "Ok" => \A P2 \in WhitespaceEdits : SameTokenTypes(P2)

(***************************************************************************)
(* C10 as amended: for a source that tokenizes, a run of spaces, tabs or   *)
(* newlines put in right before the first character of a token (the end of *)
(* input, where the EOF token is made, included) leaves the token-type     *)
(* sequence as it was; so does taking such a run out again.                *)
(***************************************************************************)
C10_WhitespaceBeforeToken ==
    lexOut.tag = "Ok"
       => \A k \in 1..Len(spans), ws \in WhitespaceRuns :
             SameTokenTypes(Insert(lexer.input, spans[k][1], ws))

\* a source of three tokens or more, one of them a string literal
C10_Witness ==
    /\ lexOut.tag = "Ok"
    /\ Len(lexOut.tokens) >= 3
    /\ \E k \in 1..Len(tokens) : tokens[k].token_type = "StringLiteral"

(***************************************************************************)
(* C11: comments and the token-type sequence.                              *)
(***************************************************************************)
\* the comment runs put into a source: `//` and characters other than newline
CommentRuns ==
    {<<"/", "/">>, <<"/", "/", "x">>, <<"/", "/", "\"">>, <<"/", "/", " ", "/", "=">>}

\* the 0-based offset i lies strictly inside a string literal
InsideStringLiteral(i) ==
    \E k \in 1..Len(spans) :
       /\ tokens[k].token_type = "StringLiteral"
       /\ spans[k][1] < i
       /\ i < spans[k][2]

\* the offsets at which a comment run put in extends up to a newline or the
\* end of input, outside the string literals
LineEnds ==
    {i \in 0..Len(lexer.input) :
        /\ i = Len(lexer.input) \/ lexer.input[i + 1] = "\n"
        /\ ~InsideStringLiteral(i)}

(***************************************************************************)
(* C11: for a source that tokenizes, a `//` comment run put in so that it  *)
(* extends up to a newline or the end of input, outside the string         *)
(* literals, leaves the token-type sequence as it was: the comment makes   *)
(* no token and the tokens after its newline are still made.               *)
(***************************************************************************)
C11_CommentInsertion ==
    lexOut.tag = "Ok"
       => \A i \in LineEnds, c \in CommentRuns :
             SameTokenTypes(Insert(lexer.input, i, c))

\* a source with a token before a newline and a token after it
C11_Witness ==
    /\ lexOut.tag = "Ok"
    /\ \E i \in LineEnds :
          /\ i < Len(lexer.input)
          /\ \E k \in 1..Len(spans) : spans[k][2] = i
          /\ \E k \in 1..Len(spans) :
                spans[k][1] > i /\ tokens[k].token_type # "EOF"

(***************************************************************************)
(* C12: an unterminated string literal makes tokenize return               *)
(* UnterminatedString at the line and column, counted from 1, of the end   *)
(* of input, with no token list.  The code does not once a newline has     *)
(* been consumed, inside the literal or before it: the column it reports   *)
(* is one more than the column of the end of input.                        *)
(***************************************************************************)
C12_UnterminatedStringPosition ==
    lexOut.tag = "Err" /\ lexOut.err.kind = "UnterminatedString"
       => /\ lexOut.err.line = LineOf(lexer.input, Len(lexer.input))
          /\ lexOut.err.column = ColumnOf(lexer.input, Len(lexer.input))
          /\ lexOut.tokens = <<>>

(***************************************************************************)
(* C13: the end of input inside a module body.                             *)
(***************************************************************************)
\* Statement* and then the EOF token that ends the vector
RECURSIVE GOpenBody(_, _)
GOpenBody(T, i) ==
    IF Is(T, i, "EOF") THEN i = Len(T)
    ELSE LET j == GStatement(T, i) IN IF j = 0 THEN FALSE ELSE GOpenBody(T, j)

\* Module*, then 'module' Identifier '{' Statement* and the EOF token
RECURSIVE GOpenProgram(_, _)
GOpenProgram(T, i) ==
    IF ~(Is(T, i, "Module") /\ Is(T, i + 1, "Identifier") /\ Is(T, i + 2, "LeftBrace"))
    THEN FALSE
    ELSE IF GOpenBody(T, i + 3) THEN TRUE
    ELSE LET j == GModuleBody(T, i + 3)
         IN  IF j = 0 THEN FALSE ELSE GOpenProgram(T, j)

\* the vector reaches EOF inside a module body, after complete statements
EndsInModuleBody(T) == T # <<>> /\ GOpenProgram(T, 1)

(***************************************************************************)
(* C13: when the token vector reaches EOF inside a module body opened with *)
(* '{', after zero or more complete statements, parse returns              *)
(* UnexpectedToken with expected RightBrace, found EOF and the line and    *)
(* column of the EOF token.                                                *)
(***************************************************************************)
C13_EOFInModuleBody ==
    parser.result.tag # "running" /\ EndsInModuleBody(parser.tokens)
       => /\ parser.result.tag = "Err"
          /\ parser.result.err =
                UnexpectedToken("RightBrace", parser.tokens[Len(parser.tokens)])

\* EOF in the body of a second module, after a statement whose value is an
\* object literal
C13_Witness ==
    /\ parser.result.tag = "Err"
    /\ EndsInModuleBody(parser.tokens)
    /\ \E i \in 4..Len(parser.tokens) : Is(parser.tokens, i, "Module")
    /\ Len(parser.tokens) >= 3
    /\ Is(parser.tokens, Len(parser.tokens) - 1, "RightBrace")
    /\ Is(parser.tokens, Len(parser.tokens) - 2, "LeftBrace")

(***************************************************************************)
(* C14: tokens at the top level.                                           *)
(***************************************************************************)
\* the i-th token of T is at the top level: it is the first token, or the
\* tokens before it are modules that parse() parses completely (the last of
\* them ends with its '}')
AtTopLevel(T, i) ==
    \/ i = 1
    \/ /\ Is(T, i - 1, "RightBrace")
       /\ Parse(SubSeq(T, 1, i - 1) \o <<TokenAt(<<"EOF", <<>>>>, i)>>).tag = "Ok"

(***************************************************************************)
(* C14: when the token at the top level (the first token, or the token     *)
(* after a completely parsed module) is neither Module nor EOF, parse      *)
(* returns UnexpectedToken with expected "module" and the found text, line *)
(* and column of that token: nothing is accepted outside a module.         *)
(***************************************************************************)
C14_TopLevelToken ==
    parser.result.tag # "running"
       => \A i \in 1..Len(parser.tokens) :
             /\ parser.tokens[i].token_type \notin {"Module", "EOF"}
             /\ AtTopLevel(parser.tokens, i)
             => /\ parser.result.tag = "Err"
                /\ parser.result.err = UnexpectedToken("module", parser.tokens[i])

\* a statement keyword after a module that holds a statement
C14_Witness ==
    /\ parser.result.tag = "Err"
    /\ parser.result.err.expected = "module"
    /\ Len(parser.tokens) >= 9
    /\ parser.tokens[Len(parser.tokens)].token_type = "Let"

(***************************************************************************)
(* C15: the expected text of an error at a name or at a required token.    *)
(* parse() stops at the last token it read, so the places of the claim are *)
(* told by the tokens that come right before the last one.                 *)
(***************************************************************************)
\* the token types at the places n - k .. n - 1 of T are those of tts
EndsWith(T, n, tts) ==
    /\ n > Len(tts)
    /\ \A k \in 1..Len(tts) : T[n - Len(tts) + k - 1].token_type = tts[k]

\* T[n] follows `module`, `let`, `const` or `type`, or is where the first
\* field of a type definition starts: the grammar has an Identifier there
NameRequired(T, n) ==
    \/ \E kw \in {"Module", "Let", "Const", "Type"} : EndsWith(T, n, <<kw>>)
    \/ EndsWith(T, n, <<"Type", "Identifier", "Arrow", "LeftBrace">>)

\* T[n] is where a field of an object literal, or a field after a comma,
\* starts: the grammar has an Identifier or the closing brace there
FieldOrCloseRequired(T, n) ==
    \/ EndsWith(T, n, <<"Comma">>)
    \/ EndsWith(T, n, <<"Equals", "LeftBrace">>)
    \/ EndsWith(T, n, <<"Colon", "LeftBrace">>)

\* the token type the grammar requires at T[n], "none" where this is not
\* one of '=', '=>', '{' and ':'
RequiredToken(T, n) ==
    IF EndsWith(T, n, <<"Let", "Identifier">>) \/ EndsWith(T, n, <<"Const", "Identifier">>)
    THEN "Equals"
    ELSE IF EndsWith(T, n, <<"Type", "Identifier">>) THEN "Arrow"
    ELSE IF EndsWith(T, n, <<"Module", "Identifier">>) \/ EndsWith(T, n, <<"Arrow">>)
    THEN "LeftBrace"
    ELSE IF \/ EndsWith(T, n, <<"Comma", "Identifier">>)
            \/ \E tt \in {"Equals", "Colon", "Arrow"} :
                  EndsWith(T, n, <<tt, "LeftBrace", "Identifier">>)
    THEN "Colon"
    ELSE "none"

\* parse returned UnexpectedToken with the expected text e
FailsExpecting(e) ==
    /\ parser.result.tag = "Err"
    /\ parser.result.err.kind = "UnexpectedToken"
    /\ parser.result.err.expected = e

(***************************************************************************)
(* C15: where the grammar has an Identifier (after `module`, `let`,        *)
(* `const`, `type`, and at a field name of a type definition or object     *)
(* literal) and the token is not one, parse returns UnexpectedToken with   *)
(* expected "identifier"; where '=', '=>', '{' or ':' is required and the  *)
(* token is another, the expected text is Equals, Arrow, LeftBrace or      *)
(* Colon.  The code does not at the first field of a type definition:      *)
(* a '}' there is accepted, and EOF there is reported as an expected       *)
(* RightBrace.                                                             *)
(***************************************************************************)
C15_ExpectedText ==
    parser.result.tag # "running"
       => LET T == parser.tokens
              n == Len(T)
          IN  /\ (NameRequired(T, n) /\ T[n].token_type # "Identifier")
                    => FailsExpecting("identifier")
              /\ (/\ FieldOrCloseRequired(T, n)
                  /\ T[n].token_type \notin {"Identifier", "RightBrace", "EOF"})
                    => FailsExpecting("identifier")
              /\ (RequiredToken(T, n) # "none" /\ T[n].token_type # RequiredToken(T, n))
                    => FailsExpecting(RequiredToken(T, n))

(***************************************************************************)
(* C16: the extent of a number token.                                      *)
(***************************************************************************)
\* the character of the source at 0-based offset i, NulChar past the end
CharAt(i) == IF i < Len(lexer.input) THEN lexer.input[i + 1] ELSE NulChar

\* the text of the k-th token made
TextOf(k) == Slice(lexer.input, spans[k][1], spans[k][2])

\* s is a run of one digit or more
IsDigitRun(s) == Len(s) >= 1 /\ \A i \in 1..Len(s) : IsAsciiDigit(s[i])

\* the k-th token is a number token of the extent the claim gives it
NumberExtent(k) ==
    LET text == TextOf(k)
        d == DotIndex(text)
        e == spans[k][2]
    IN  /\ IF d = 0 THEN IsDigitRun(text)
           ELSE /\ IsDigitRun(SubSeq(text, 1, d - 1))
                /\ IsDigitRun(SubSeq(text, d + 1, Len(text)))
        /\ ~IsAsciiDigit(CharAt(e))
        /\ d = 0 => ~(CharAt(e) = "." /\ IsAsciiDigit(CharAt(e + 1)))
        /\ tokens[k].val = ParseF64(text)
        /\ CharAt(e) = "." /\ k < Len(tokens)
              => tokens[k + 1].token_type = "Dot" /\ spans[k + 1] = <<e, e + 1>>

(***************************************************************************)
(* C16: a number token is the maximal run of digits at its start and then  *)
(* a '.' with a further maximal run of digits only where a digit follows   *)
(* that '.'; a '.' with no digit after it is left and is the next token,   *)
(* a Dot.  `1.` gives NumberLiteral(1), Dot and `1.2.3` gives              *)
(* NumberLiteral(1.2), Dot, NumberLiteral(3).                              *)
(***************************************************************************)
C16_NumberExtent ==
    /\ \A k \in 1..Len(tokens) :
          tokens[k].token_type = "NumberLiteral" => NumberExtent(k)
    /\ lexOut.tag = "Ok" /\ lexer.input = <<"1", ".">>
          => /\ TokenTypes(tokens)
                   = <<<<"NumberLiteral", <<"1">>>>, <<"Dot", <<>>>>, <<"EOF", <<>>>>>>
             /\ TokenTypes(Tokenize(lexer.input \o <<"2", ".", "3">>, TRUE).tokens)
                   = <<<<"NumberLiteral", <<"1", ".", "2">>>>, <<"Dot", <<>>>>,
                       <<"NumberLiteral", <<"3">>>>, <<"EOF", <<>>>>>>

\* a number with a fraction and a '.' right after it
C16_Witness ==
    /\ lexOut.tag = "Ok"
    /\ \E k \in 1..(Len(tokens) - 1) :
          /\ tokens[k].token_type = "NumberLiteral"
          /\ DotIndex(TextOf(k)) # 0
          /\ tokens[k + 1].token_type = "Dot"
          /\ spans[k + 1][1] = spans[k][2]

(***************************************************************************)
(* C17: the extent and the value of a string literal.                      *)
(***************************************************************************)
\* the k-th token runs from a quote to the first quote after it, and its
\* value is the characters between the two
StringExtent(k) ==
    LET text == TextOf(k)
    IN  /\ Len(text) >= 2
        /\ text[1] = "\""
        /\ text[Len(text)] = "\""
        /\ \A i \in 2..(Len(text) - 1) : text[i] # "\""
        /\ tokens[k].val = SubSeq(text, 2, Len(text) - 1)

\* tokenize stopped with a panic while it made a string literal
PanicsInString == lexOut.tag = "Panic" /\ CharAt(lexer.start) = "\""

(***************************************************************************)
(* C17: a string literal ends at the first '"' after its opening quote,    *)
(* a backslash before it or not, and its value is the characters between   *)
(* the quotes as they are: newlines, `//` and characters that are errors   *)
(* outside a string make no other token and no error.  The code does not   *)
(* for a newline: where the literal's last line is shorter than the whole  *)
(* literal, make_token's column subtraction underflows and a build with    *)
(* overflow checks panics.                                                 *)
(***************************************************************************)
C17_StringLiteralValue ==
    /\ \A k \in 1..Len(tokens) :
          tokens[k].token_type = "StringLiteral" => StringExtent(k)
    /\ lexer.input = <<>>
          => TokenTypes(Tokenize(<<"\"", "a", "\\", "\"", "b">>, TRUE).tokens)
                = <<<<"StringLiteral", <<"a", "\\">>>>, <<"Identifier", <<"b">>>>,
                    <<"EOF", <<>>>>>>
    /\ ~PanicsInString

(***************************************************************************)
(* C18: the unexpected character.                                          *)
(***************************************************************************)
\* the characters that start a token
TokenStarts ==
    {"{", "}", "(", ")", ":", "=", ".", ",", "\"", "_"} \cup Digits \cup Letters

(***************************************************************************)
(* C18: an UnexpectedCharacter error carries the character that starts no  *)
(* token, and that character's own line and column, counted from 1, on     *)
(* every line of the source.  The code does not on the lines after the     *)
(* first: the column it reports is one more than the character's column.   *)
(***************************************************************************)
C18_UnexpectedCharacter ==
    lexOut.tag = "Err" /\ lexOut.err.kind = "UnexpectedCharacter"
       => /\ lexOut.err.char = CharAt(lexer.start)
          /\ lexOut.err.char \notin TokenStarts
          /\ lexOut.err.line = LineOf(lexer.input, lexer.start)
          /\ lexOut.err.column = ColumnOf(lexer.input, lexer.start)

(***************************************************************************)
(* C19: the counts of an AST against the tokens it was parsed from.        *)
(***************************************************************************)
\* the number of tokens of T whose type is in types
CountTokens(T, types) == Cardinality({i \in 1..Len(T) : T[i].token_type \in types})

\* the fields of an expression, at all depths
RECURSIVE ExpressionFieldCount(_), ObjectFieldCount(_)
ExpressionFieldCount(e) == IF e.tag = "Object" THEN ObjectFieldCount(e.fields) ELSE 0

ObjectFieldCount(fs) ==
    IF fs = <<>> THEN 0
    ELSE 1 + ExpressionFieldCount(fs[1][2]) + ObjectFieldCount(Tail(fs))

\* the type fields and object-literal fields of a statement
StatementFieldCount(st) ==
    IF st.tag = "TypeDef" THEN Len(st.fields) ELSE ExpressionFieldCount(st.value)

RECURSIVE StatementsFieldCount(_)
StatementsFieldCount(sts) ==
    IF sts = <<>> THEN 0
    ELSE StatementFieldCount(sts[1]) + StatementsFieldCount(Tail(sts))

\* the statements, and the fields, of all the modules of a Program
RECURSIVE StatementCount(_)
StatementCount(ms) ==
    IF ms = <<>> THEN 0 ELSE Len(ms[1].statements) + StatementCount(Tail(ms))

RECURSIVE FieldCount(_)
FieldCount(ms) ==
    IF ms = <<>> THEN 0
    ELSE StatementsFieldCount(ms[1].statements) + FieldCount(Tail(ms))

(***************************************************************************)
(* C19: when parse returns Ok, the Program has as many modules as the      *)
(* vector has Module tokens, as many statements over all modules as it has *)
(* Let, Const and Type tokens, and as many type fields and object-literal  *)
(* fields, at all depths, as it has Colon tokens.                          *)
(***************************************************************************)
C19_Counts ==
    parser.result.tag = "Ok"
       => LET T == parser.tokens
              ms == parser.result.program
          IN  /\ Len(ms) = CountTokens(T, {"Module"})
              /\ StatementCount(ms) = CountTokens(T, {"Let", "Const", "Type"})
              /\ FieldCount(ms) = CountTokens(T, {"Colon"})

\* an object literal with a field whose value is an object literal with a field
C19_Witness ==
    /\ parser.result.tag = "Ok"
    /\ \E m \in 1..Len(parser.result.program) :
          \E k \in 1..Len(parser.result.program[m].statements) :
             LET st == parser.result.program[m].statements[k]
             IN  /\ st.tag # "TypeDef"
                 /\ st.value.tag = "Object"
                 /\ \E f \in 1..Len(st.value.fields) :
                       /\ st.value.fields[f][2].tag = "Object"
                       /\ st.value.fields[f][2].fields # <<>>

(***************************************************************************)
(* C20: parse never returns ParseError::InvalidExpression or               *)
(* ParseError::UnexpectedEOF: every error it returns is an UnexpectedToken, *)
(* whose display text holds "Expected".                                    *)
(***************************************************************************)
C20_OnlyUnexpectedToken ==
    parser.result.tag \notin {"running", "Ok"}
       => /\ parser.result.tag = "Err"
          /\ parser.result.err.kind = "UnexpectedToken"
          /\ LET text == DisplayParseError(parser.result.err).format
             IN  \E i \in 1..Len(text) : text[i] = "Expected"

\* parse_expression fails, at the end of input and at a token that begins no
\* expression
C20_Witness ==
    /\ parser.result.tag = "Err"
    /\ parser.result.err.kind = "UnexpectedToken"
    /\ parser.result.err.expected = "expression"
    /\ Len(parser.tokens) >= 7

(***************************************************************************)
(* C21: the token cursor of the parser.                                    *)
(***************************************************************************)
\* the token types of src/src/lexer/token.rs
AllTokenTypes ==
    {"Module", "Type", "Const", "Let", "Number", "String", "Boolean", "LeftBrace",
     "RightBrace", "LeftParen", "RightParen", "Colon", "Arrow", "Equals", "Dot",
     "Comma", "NumberLiteral", "StringLiteral", "BooleanLiteral", "Identifier", "EOF"}

\* what a call of advance, match_token or consume does to the cursor of p:
\* one more where the call consumes the token at `current`, the same at EOF
\* and on a token of another type
HelperMoves(p) ==
    LET here == Peek(p).token_type
    IN  /\ Advance(p).p.current = p.current + (IF here = "EOF" THEN 0 ELSE 1)
        /\ \A tt \in AllTokenTypes :
              LET by == IF here = tt /\ here # "EOF" THEN 1 ELSE 0
              IN  /\ MatchToken(p, tt).p.current = p.current + by
                  /\ Consume(p, tt).p.current = p.current + by

(***************************************************************************)
(* C21: during parse the cursor `current` never decreases.  A step of a    *)
(* production raises it by one at most; advance, match_token and consume   *)
(* raise it by one where they consume the token at `current` and by zero   *)
(* at EOF or on a mismatch; the token at `current` is the only one looked  *)
(* at ahead of the cursor.                                                 *)
(***************************************************************************)
C21_CursorMonotonic ==
    [][/\ parser'.current >= parser.current
       /\ parser'.current <= parser.current + 1
       /\ (parser.result.tag = "running" /\ parser.current < Len(parser.tokens))
             => HelperMoves(parser)]_vars

\* advance was called at the EOF token, after three tokens or more
C21_Witness ==
    /\ parser.result.tag = "Err"
    /\ parser.result.err.expected \in {"identifier", "type"}
    /\ parser.tokens[Len(parser.tokens)].token_type = "EOF"
    /\ parser.current = Len(parser.tokens) - 1
    /\ parser.current >= 3

(***************************************************************************)
(* C22: the cursor stays inside the token vector.                          *)
(***************************************************************************)
\* the next step of the production on top of the stack calls advance()
\* without a test of is_at_end before it
AdvancesNext(p) ==
    \/ Top(p).pc = "name"
    \/ Top(p).fn \in {"parse_type", "parse_primary"}

(***************************************************************************)
(* C22: on a token vector that ends with EOF the cursor stays an index of  *)
(* the vector: it is never negative and never moves past the first EOF     *)
(* token; previous() is evaluated only with current >= 1 (no panic); an    *)
(* advance at EOF, which hands back the token consumed before, makes the   *)
(* production fail; and a Program is built from every token other than the *)
(* commas and EOF once.                                                    *)
(***************************************************************************)
C22_CursorInBounds ==
    /\ parser.current >= 0
    /\ \A i \in 1..Len(parser.tokens) :
          parser.tokens[i].token_type = "EOF" => parser.current < i
    /\ ~parser.panicked
    /\ parser.result.tag # "Panic"
    /\ (/\ parser.result.tag = "running"
        /\ parser.current < Len(parser.tokens)
        /\ IsAtEnd(parser)
        /\ AdvancesNext(parser))
          => ParserStep(parser).result.tag = "Err"
    /\ parser.result.tag = "Ok"
          => Len(UnparseProgram(parser.result.program))
                = Len(KindsLessCommas(parser.tokens))

\* advance was called at the EOF token where a type is read, and failed
C22_Witness ==
    /\ parser.result.tag = "Err"
    /\ parser.result.err.expected = "type"
    /\ parser.tokens[Len(parser.tokens)].token_type = "EOF"
    /\ parser.current = Len(parser.tokens) - 1

(***************************************************************************)
(* C23: tokenize and parse terminate.                                      *)
(***************************************************************************)
\* the functions of the parser that hold a loop
LoopFunctions ==
    {"parse", "parse_module", "parse_type_definition", "parse_object_expression"}

\* the parser is at the head of a loop, its next token read
AtLoopHead(p) ==
    /\ p.result.tag = "running"
    /\ p.current < Len(p.tokens)
    /\ Top(p).fn \in LoopFunctions
    /\ Top(p).pc = "loop"

\* the iteration that starts at the loop head p leaves the loop (by a return
\* or an error) or consumes a token, in the loop itself or in the first step
\* of the production it calls
LoopProgress(p) ==
    LET q == ParserStep(p)
    IN  \/ q.result.tag # "running"
        \/ Len(q.stack) < Len(p.stack)
        \/ q.current > p.current
        \/ LET r == ParserStep(q)
           IN  r.result.tag = "Err" \/ r.current > p.current

\* tokenize goes round its loop in this step: next_token returned a token
\* other than EOF
TokenizeLoops == lexOut.tag = "running" /\ lexOut'.tag = "running"

(***************************************************************************)
(* C23: every next_token call that returns a token other than EOF moves    *)
(* the scanner cursor forward, and the cursor stays within the source, so  *)
(* tokenize goes round its loop len(source) times at most and returns at   *)
(* most len(source) + 1 tokens; every iteration of the loops of parse,     *)
(* parse_module, parse_type_definition and parse_object_expression         *)
(* consumes a token or leaves the loop, and parse, once called, returns.   *)
(***************************************************************************)
C23_Termination ==
    /\ [][TokenizeLoops => lexer'.current > lexer.current]_vars
    /\ [](lexer.current <= Len(lexer.input))
    /\ [](Len(tokens) <= Len(lexer.input) + 1)
    /\ [](AtLoopHead(parser) => LoopProgress(parser))
    /\ (parser.result.tag = "running") ~> (parser.result.tag \in {"Ok", "Err"})

\* parse has returned after two iterations of the loop of an object literal
C23_Witness ==
    /\ parser.result.tag = "Ok"
    /\ \E m \in 1..Len(parser.result.program) :
          \E k \in 1..Len(parser.result.program[m].statements) :
             LET st == parser.result.program[m].statements[k]
             IN  st.tag # "TypeDef" /\ st.value.tag = "Object" /\ Len(st.value.fields) >= 2

(***************************************************************************)
(* C24: once next_token has returned the EOF token, a further call on the  *)
(* same Lexer returns an EOF token with the same line and column, without  *)
(* an error or a panic, and leaves current, start, line and column as they *)
(* were; the call after that one does the same.                            *)
(***************************************************************************)
\* the EOF token has been returned: tokenize pushed it and returned Ok
ReturnedEOF ==
    /\ lexOut.tag = "Ok"
    /\ tokens # <<>>
    /\ tokens[Len(tokens)].token_type = "EOF"

\* the call of next_token on lx returns the EOF token eof and leaves lx alone
RepeatsEOF(lx, eof) ==
    LET r == NextToken(lx)
    IN  /\ r.tag = "Ok"
        /\ r.err = NoErr
        /\ ~r.underflow
        /\ ~r.lx.panicked
        /\ r.token.token_type = "EOF"
        /\ r.token.line = eof.line
        /\ r.token.column = eof.column
        /\ r.lx.current = lx.current
        /\ r.lx.start = lx.start
        /\ r.lx.line = lx.line
        /\ r.lx.column = lx.column
        /\ r.lx = lx

C24_EOFRepeats ==
    /\ (lexOut.tag = "Ok") => ReturnedEOF
    /\ ReturnedEOF =>
          /\ RepeatsEOF(lexer, tokens[Len(tokens)])
          /\ RepeatsEOF(NextToken(lexer).lx, tokens[Len(tokens)])

\* the EOF token was returned on a later line, after a token and a comment
C24_Witness ==
    /\ ReturnedEOF
    /\ Len(tokens) >= 2
    /\ tokens[Len(tokens)].line >= 2
    /\ tokens[Len(tokens)].column >= 2
    /\ \E i \in 1..Len(lexer.input) - 1 :
          lexer.input[i] = "/" /\ lexer.input[i + 1] = "/"

(***************************************************************************)
(* C25: the lexical errors that are returned.                              *)
(***************************************************************************)
\* s is digits ('.' digits)? with a digit at least on each side of the dot
NumberShape(s) ==
    LET d == DotIndex(s)
    IN  IF d = 0 THEN IsDigitRun(s)
        ELSE /\ IsDigitRun(SubSeq(s, 1, d - 1))
             /\ IsDigitRun(SubSeq(s, d + 1, Len(s)))

ReturnedErrors == {"UnterminatedString", "UnexpectedCharacter"}

(***************************************************************************)
(* C25: next_token and tokenize return no InvalidNumber and no             *)
(* UnexpectedEOF error: advance is never called at the end of input (its   *)
(* Err would be returned by `?` or would panic in unwrap), the text of     *)
(* every number token is digits ('.' digits)? with a digit on each side of *)
(* the dot, which parse::<f64> accepts, and an error that is returned is   *)
(* UnterminatedString or UnexpectedCharacter.                              *)
(***************************************************************************)
C25_ReturnedErrors ==
    /\ ~lexer.panicked
    /\ (lexOut.tag = "Err") => lexOut.err.kind \in ReturnedErrors
    /\ (lexOut.tag = "running") =>
          LET r == NextToken(lexer)
          IN  /\ ~r.lx.panicked
              /\ (r.tag = "Err") => r.err.kind \in ReturnedErrors
              /\ (r.tag = "Ok") => r.err = NoErr
    /\ \A k \in 1..Len(tokens) :
          (tokens[k].token_type = "NumberLiteral") =>
             /\ NumberShape(TextOf(k))
             /\ ParseF64(TextOf(k)) # <<>>

\* tokenize returned an error after a number with a fraction and before the
\* end of the source
C25_Witness ==
    /\ lexOut.tag = "Err"
    /\ lexOut.err.kind = "UnexpectedCharacter"
    /\ Len(lexer.input) >= 4
    /\ SubSeq(lexer.input, 1, 3) = <<"1", ".", "1">>
    /\ lexer.start = 3

====
